---- MODULE Spec2Model ----
(***************************************************************************)
(* Model of hipchat-cli (src/hipchat.go): the plain-text formatter         *)
(* processPlainText with the URL pattern urlRe, and the doSend command.    *)
(*                                                                         *)
(* Text is a sequence of characters, each a one-character string.  The     *)
(* backquote and the non-ASCII members of urlRe's trailing class are       *)
(* written by code point ("U+0060", "U+00AB"), one element per rune.       *)
(* Offsets returned by FindIndex are 0-based and half open, as in Go.      *)
(***************************************************************************)
EXTENDS Integers, Sequences, FiniteSets, TLC

(***************************************************************************)
(* Bounds of the checked input space.                                      *)
(***************************************************************************)
MaxChunks == 4

(***************************************************************************)
(* Character classes of urlRe (src/hipchat.go:210).                        *)
(***************************************************************************)
Lower == {"a","b","c","d","e","f","g","h","i","j","k","l","m",
          "n","o","p","q","r","s","t","u","v","w","x","y","z"}

Upper == {"A","B","C","D","E","F","G","H","I","J","K","L","M",
          "N","O","P","Q","R","S","T","U","V","W","X","Y","Z"}

Digit == {"0","1","2","3","4","5","6","7","8","9"}

\* \s of Go's regexp: [\t\n\f\r ]
SpaceClass == {" ", "\t", "\n", "\f", "\r"}

\* \w of Go's regexp, which decides \b: [0-9A-Za-z_]
IsWordChar(c) == c \in Lower \cup Upper \cup Digit \cup {"_"}

\* [a-z0-9%] under (?i): Go folds case by unicode.SimpleFold, which puts the
\* long s (U+017F) with s and the Kelvin sign (U+212A) with k
IsSchemeAdjacent(c) ==
  c \in Lower \cup Upper \cup Digit \cup {"%", "U+017F", "U+212A"}

\* [^\s()<>]
IsUrlChar(c) == c \notin SpaceClass \cup {"(", ")", "<", ">"}

\* the characters listed in the final negated class, \s apart
TrailingPunct == {"U+0060", "!", "(", ")", "[", "]", "{", "}", ";", ":", "'", "\"",
                  ".", ",", "<", ">", "?",
                  "U+00AB", "U+00BB", "U+201C", "U+201D", "U+2018", "U+2019"}

\* the final negated class: not \s, not one of TrailingPunct
IsUrlEnd(c) == c \notin SpaceClass \cup TrailingPunct

\* one literal letter of the pattern under (?i)
FoldEq(c, l) ==
  \/ c = l
  \/ (l = "h" /\ c = "H")
  \/ (l = "t" /\ c = "T")
  \/ (l = "p" /\ c = "P")
  \/ (l = "s" /\ c \in {"S", "U+017F"})

(***************************************************************************)
(* The matcher: urlRe.FindIndex under Go's leftmost-first semantics.       *)
(* Positions are 1-based: position i is the next character to read, and    *)
(* Len(s) + 1 is the end of s.  The pattern is                             *)
(*   \b https?: (/{1,3} | [a-z0-9%])  item+  (paren | final)               *)
(*   item  = [^\s()<>]+ | paren                                            *)
(*   paren = \( ([^\s()<>]+ | \([^\s()<>]+\))* \)                          *)
(*   final = one character outside \s and TrailingPunct                    *)
(***************************************************************************)
\* the member of a one-element set.  Only({F(v) : v \in {e}}) is F(e), with
\* e computed once however often F uses it.
Only(S) == CHOOSE x \in S : TRUE

CharAt(s, i) == IF i >= 1 /\ i <= Len(s) THEN s[i] ELSE "EOF"

\* the largest and the smallest member of S, none when S is empty
Largest(S, none) ==
  IF S = {} THEN none ELSE CHOOSE x \in S : \A y \in S : y <= x

Smallest(S, none) ==
  IF S = {} THEN none ELSE CHOOSE x \in S : \A y \in S : x <= y

\* a repetition that stops as early as it can, as +? would
Lazy(S) == Smallest(S, 0)

\* a greedy repetition stops at the last position that lets the rest of the
\* pattern match
Greedy(S) == Largest(S, 0)

\* a pattern that does not tell parentheses from other characters
DepthUntracked(s, b, x) == 0

\* how many "(" of s[b..x-1] are still open at position x
Depth(s, b, x) ==
  Cardinality({k \in b..(x - 1) : s[k] = "("})
  - Cardinality({k \in b..(x - 1) : s[k] = ")"})

DepthTab(s, b) == [x \in b..(Len(s) + 1) |-> Depth(s, b, x)]

\* s[b..x-1] is zero or more items: no character of [\s<>]; a "(" opens a
\* paren at depth 0 and a \(...\) group inside a paren at depth 1, never
\* deeper; a ")" closes what is open; a group inside a paren is not empty;
\* and nothing is left open at x.  d is DepthTab(s, b).
ItemsEnd(s, b, d, x) ==
  /\ d[x] = 0
  /\ \A k \in b..(x - 1) :
       /\ IsUrlChar(s[k]) \/ s[k] \in {"(", ")"}
       /\ d[k + 1] \in 0..2
       /\ (s[k] = ")" /\ d[k] = 2) => s[k - 1] # "("

\* the positions at which item* started at b can stop
Reach(s, b, d) == {x \in b..(Len(s) + 1) : ItemsEnd(s, b, d, x)}

\* the "(" of the paren that closes just before position x
LastOpen(s, b, d, x) ==
  Largest({k \in b..(x - 1) : s[k] = "(" /\ d[k] = 0}, 0)

\* item+ (paren | final) started at b, the last paren item, if there is
\* one, stopping at seg (else seg = b), and finals being the final
\* characters after seg.  Greedy item+ first runs as far as items go, where
\* neither a paren nor a final character follows; it then gives back one
\* character of the last run at a time, down to seg, until the character
\* given back is a final one; if none is, the last paren item becomes the
\* closing paren, provided an item is left before it.  0 when nothing
\* matches.
PickEnd(s, b, d, seg, finals) ==
  IF finals # {} THEN Greedy(finals) + 1
  ELSE IF seg > b /\ LastOpen(s, b, d, seg) > b THEN seg
  ELSE 0

\* the final characters the last run can give back: those of s[seg..top-1],
\* less s[b] itself, which the first item needs
Finals(s, b, top, seg) ==
  {x \in (IF seg > b THEN seg ELSE b + 1)..(top - 1) : IsUrlEnd(s[x])}

BodyTailAt(s, b, d, reach, seg) ==
  Only({PickEnd(s, b, d, seg, finals) :
          finals \in {Finals(s, b, Largest(reach, b), seg)}})

\* where the last paren item of the longest run of items stops, b if none
LastParenEnd(s, b, reach) ==
  Largest({x \in reach : x > b /\ s[x - 1] = ")"}, b)

BodyTailIn(s, b, d, reach) ==
  Only({BodyTailAt(s, b, d, reach, seg) :
          seg \in {LastParenEnd(s, b, reach)}})

BodyTailWith(s, b, d) ==
  Only({BodyTailIn(s, b, d, reach) : reach \in {Reach(s, b, d)}})

\* (?:item)+(?:paren|final) started at b: where the match ends, 0 if none
BodyTailEnd(s, b) ==
  Only({BodyTailWith(s, b, d) : d \in {DepthTab(s, b)}})

\* /{1,3} : three, then two, then one
SlashEnds(s, i) ==
  IF CharAt(s, i) # "/" THEN <<>>
  ELSE IF CharAt(s, i + 1) # "/" THEN <<i + 1>>
  ELSE IF CharAt(s, i + 2) # "/" THEN <<i + 2, i + 1>>
  ELSE <<i + 3, i + 2, i + 1>>

\* (?:/{1,3}|[a-z0-9%])
AfterColonEnds(s, j) ==
  SlashEnds(s, j)
  \o (IF IsSchemeAdjacent(CharAt(s, j)) THEN <<j + 1>> ELSE <<>>)

\* https?: , the s taken when it is there
ColonEnds(s, i) ==
  IF ~ (/\ FoldEq(CharAt(s, i), "h") /\ FoldEq(CharAt(s, i + 1), "t")
        /\ FoldEq(CharAt(s, i + 2), "t") /\ FoldEq(CharAt(s, i + 3), "p"))
  THEN <<>>
  ELSE (IF FoldEq(CharAt(s, i + 4), "s") /\ CharAt(s, i + 5) = ":"
        THEN <<i + 6>> ELSE <<>>)
       \o (IF CharAt(s, i + 4) = ":" THEN <<i + 5>> ELSE <<>>)

\* https?:(?:/{1,3}|[a-z0-9%])
SchemeEnds(s, i) ==
  IF ColonEnds(s, i) = <<>> THEN <<>>
  ELSE AfterColonEnds(s, ColonEnds(s, i)[1])

\* \b before position i
WordBoundary(s, i) ==
  (i > 1 /\ IsWordChar(s[i - 1])) # (i <= Len(s) /\ IsWordChar(s[i]))

\* the first of the alternatives ends[1], ends[2], ... that matched
FirstMatched(ends) ==
  Only({IF k = 0 THEN 0 ELSE ends[k] :
          k \in {Smallest({j \in 1..Len(ends) : ends[j] > 0}, 0)}})

\* the rest of the pattern after each way begins[1], begins[2], ... the
\* scheme can stop, in their order
MatchFrom(s, begins) ==
  Only({FirstMatched(ends) :
          ends \in {[k \in 1..Len(begins) |-> BodyTailEnd(s, begins[k])]}})

\* the whole pattern started at position i: where the match ends, 0 if none
MatchEnd(s, i) ==
  IF ~ WordBoundary(s, i) THEN 0
  ELSE Only({MatchFrom(s, begins) : begins \in {SchemeEnds(s, i)}})

\* the match at the leftmost position where one starts
FindAt(s, i) == IF i = 0 THEN <<>> ELSE <<i - 1, MatchEnd(s, i) - 1>>

\* urlRe.FindIndex(s): <<>> for nil, else <<loc[0], loc[1]>>
FindIndex(s) ==
  Only({FindAt(s, i) :
          i \in {Smallest({j \in 1..Len(s) : MatchEnd(s, j) > 0}, 0)}})


(***************************************************************************)
(* html.EscapeString and the anchor written by processPlainText.           *)
(***************************************************************************)
EscapeChar(c) ==
  CASE c = "&"  -> <<"&", "a", "m", "p", ";">>
    [] c = "'"  -> <<"&", "#", "3", "9", ";">>
    [] c = "<"  -> <<"&", "l", "t", ";">>
    [] c = ">"  -> <<"&", "g", "t", ";">>
    [] c = "\"" -> <<"&", "#", "3", "4", ";">>
    [] OTHER    -> <<c>>

\* s[lo..hi] with every character replaced by what EscapeChar gives for it
RECURSIVE EscapeRange(_, _, _)
EscapeRange(s, lo, hi) ==
  IF lo > hi THEN <<>>
  ELSE IF lo = hi THEN EscapeChar(s[lo])
  ELSE EscapeRange(s, lo, (lo + hi) \div 2)
       \o EscapeRange(s, (lo + hi) \div 2 + 1, hi)

EscapeString(s) == EscapeRange(s, 1, Len(s))

\* an anchor whose link text went through html.EscapeString
AnchorEscapedText(url) ==
  <<"<", "a", " ", "h", "r", "e", "f", "=", "\"">> \o url
  \o <<"\"", ">">> \o EscapeString(url) \o <<"<", "/", "a", ">">>

\* fmt.Fprintf(out, `<a href="%s">%s</a>`, url, url)
Anchor(url) ==
  <<"<", "a", " ", "h", "r", "e", "f", "=", "\"">> \o url
  \o <<"\"", ">">> \o url \o <<"<", "/", "a", ">">>

\* a plain() that escapes what is already escaped
PlainTwice(chunk) == EscapeString(EscapeString(chunk))

\* plain(chunk)
Plain(chunk) == EscapeString(chunk)


(***************************************************************************)
(* processPlainText (src/hipchat.go:214-234), one loop iteration at a time.*)
(***************************************************************************)
Slice(s, lo, hi) == SubSeq(s, lo + 1, hi)

\* an iteration that leaves the cursor at the start of the match:
\* src = src[loc[0]:]
ScanAtStuck(rest, acc, loc) ==
  IF loc = <<>>
  THEN [src |-> rest, out |-> acc \o Plain(rest), done |-> TRUE,
        lit |-> rest, url |-> <<>>]
  ELSE [src  |-> Slice(rest, loc[1], Len(rest)),
        out  |-> acc \o Plain(Slice(rest, 0, loc[1]))
                     \o Anchor(Slice(rest, loc[1], loc[2])),
        done |-> FALSE,
        lit  |-> Slice(rest, 0, loc[1]),
        url  |-> Slice(rest, loc[1], loc[2])]

\* one iteration of the for loop on the remaining input and the buffer
ScanAt(rest, acc, loc) ==
  IF loc = <<>>
  THEN [src |-> rest, out |-> acc \o Plain(rest), done |-> TRUE,
        lit |-> rest, url |-> <<>>]
  ELSE [src  |-> Slice(rest, loc[2], Len(rest)),
        out  |-> acc \o Plain(Slice(rest, 0, loc[1]))
                     \o Anchor(Slice(rest, loc[1], loc[2])),
        done |-> FALSE,
        lit  |-> Slice(rest, 0, loc[1]),
        url  |-> Slice(rest, loc[1], loc[2])]

\* loc := urlRe.FindIndex(src), and the iteration it decides
ScanStep(rest, acc) ==
  Only({ScanAt(rest, acc, loc) : loc \in {FindIndex(rest)}})

RECURSIVE ScanLoop(_, _)
ScanNext(st) == IF st.done THEN st.out ELSE ScanLoop(st.src, st.out)

ScanLoop(rest, acc) == Only({ScanNext(st) : st \in {ScanStep(rest, acc)}})

\* processPlainText as a function of its argument
processPlainText(s) == ScanLoop(s, <<>>)

(***************************************************************************)
(* Inputs of the formatter: every concatenation of at most MaxChunks       *)
(* chunks of the pool, and a list of longer texts.                         *)
(***************************************************************************)
ChunkPool ==
  { <<"h","t","t","p",":","/","a">>, <<"a">>, <<"(">>, <<")">>, <<" ">>,
    <<".">>, <<"<">>, <<"\"">> }

RECURSIVE Concats(_)
Concats(k) ==
  IF k = 0 THEN {<<>>}
  ELSE LET shorter == Concats(k - 1)
       IN shorter \cup {c \o s : c \in ChunkPool, s \in shorter}

\* 'see http://example.com/thing here'
ExSee ==
  <<"s","e","e"," ","h","t","t","p",":","/","/","e","x","a","m","p","l","e",
    ".","c","o","m","/","t","h","i","n","g"," ","h","e","r","e">>

\* '(see http://example.com/thing)'
ExOuterParen ==
  <<"(","s","e","e"," ","h","t","t","p",":","/","/","e","x","a","m","p","l",
    "e",".","c","o","m","/","t","h","i","n","g",")">>

\* 'http://en.wikipedia.org/wiki/PHP_(programming_language)'
ExWikipedia ==
  <<"h","t","t","p",":","/","/","e","n",".","w","i","k","i","p","e","d","i",
    "a",".","o","r","g","/","w","i","k","i","/","P","H","P","_","(","p","r",
    "o","g","r","a","m","m","i","n","g","_","l","a","n","g","u","a","g","e",
    ")">>

\* '5 < 10 & 3 > 1'
ExCompare ==
  <<"5"," ","<"," ","1","0"," ","&"," ","3"," ",">"," ","1">>

\* 'say "hi" & \'bye\' <b>'
ExQuotes ==
  <<"s","a","y"," ","\"","h","i","\""," ","&"," ","'","b","y","e","'"," ",
    "<","b",">">>

\* 'HTTPS://A.b/c?d=1&e=2, ok'
ExUpper ==
  <<"H","T","T","P","S",":","/","/","A",".","b","/","c","?","d","=","1","&",
    "e","=","2",","," ","o","k">>

\* 'http:x%20 and\thttps:///y/z!'
ExSchemeAdjacent ==
  <<"h","t","t","p",":","x","%","2","0"," ","a","n","d","\t","h","t","t",
    "p","s",":","/","/","/","y","/","z","!">>

\* 'at http://x.y/(a(b)c)z. or http://q/().\n'
ExNested ==
  <<"a","t"," ","h","t","t","p",":","/","/","x",".","y","/","(","a","(","b",
    ")","c",")","z","."," ","o","r"," ","h","t","t","p",":","/","/","q","/",
    "(",")",".","\n">>

\* 'http://a/b http://c/d'
ExTwo ==
  <<"h","t","t","p",":","/","/","a","/","b"," ","h","t","t","p",":","/","/",
    "c","/","d">>

\* 'xhttp://a/b http:// https http:/. (http:)'
ExNotUrls ==
  <<"x","h","t","t","p",":","/","/","a","/","b"," ","h","t","t","p",":","/",
    "/"," ","h","t","t","p","s"," ","h","t","t","p",":","/","."," ","(","h",
    "t","t","p",":",")">>

\* 'go http://a/"onclick="x now'
ExQuoteInUrl ==
  <<"g","o"," ","h","t","t","p",":","/","/","a","/","\"","o","n","c","l",
    "i","c","k","=","\"","x"," ","n","o","w">>

Examples ==
  {ExSee, ExOuterParen, ExWikipedia, ExCompare, ExQuotes, ExUpper,
   ExSchemeAdjacent, ExNested, ExTwo, ExNotUrls, ExQuoteInUrl}

Inputs == Concats(MaxChunks) \cup Examples

\* the texts given to doSend
TxtHello == <<"h","e","l","l","o">>

TxtMarkup == <<"<","b",">"," ","h","t","t","p",":","/","a",".","/","&">>

SendTexts == {<<>>, TxtHello, TxtMarkup}

VARIABLES
  input,    \* the argument of the running processPlainText call
  src,      \* its remaining input
  out,      \* its output buffer
  lits,     \* the chunks handed to plain(), in order
  urls,     \* the matches written as anchors, in order
  fpc,      \* "idle", "scan" (in the loop) or "done" (returned)
  flags,    \* the cli.Context of doSend
  stdin,    \* what os.Stdin holds
  spc,      \* the position of doSend
  text,     \* doSend's text
  msg,      \* doSend's msg
  buf,      \* doSend's buf
  req,      \* doSend's req
  sent,     \* the requests handed to http.DefaultClient.Do, in order
  rsp,      \* doSend's rsp (status line, headers) and entity
  logs,     \* the calls of the logger, in order
  result    \* "running", or how doSend ended

fvars == <<input, src, out, lits, urls, fpc>>

svars == <<flags, stdin, spc, text, msg, buf, req, sent, rsp, logs, result>>

vars == <<input, src, out, lits, urls, fpc,
          flags, stdin, spc, text, msg, buf, req, sent, rsp, logs, result>>

(***************************************************************************)
(* processPlainText's loop.                                                *)
(***************************************************************************)
\* loc != nil: lines 228-231
ScanMatch ==
  /\ fpc = "scan"
  /\ \E st \in {ScanStep(src, out)} :
       /\ ~ st.done
       /\ src' = st.src
       /\ out' = st.out
       /\ lits' = Append(lits, st.lit)
       /\ urls' = Append(urls, st.url)
  /\ UNCHANGED <<input, fpc>>
  /\ UNCHANGED svars

\* loc == nil: lines 224-227, then return out.Bytes()
ScanNoMatch ==
  /\ fpc = "scan"
  /\ \E st \in {ScanStep(src, out)} :
       /\ st.done
       /\ out' = st.out
       /\ lits' = Append(lits, st.lit)
  /\ fpc' = "done"
  /\ UNCHANGED <<input, src, urls>>
  /\ UNCHANGED svars

(***************************************************************************)
(* doSend (src/hipchat.go:103-190).                                        *)
(***************************************************************************)
StatusOK == 200

StatusNoContent == 204

Statuses == {StatusOK, StatusNoContent, 201, 400, 500}

Entities == {"", "{\"error\":{\"code\":400}}"}

NoMsg == [From |-> "", Message |-> <<>>, Color |-> "", MessageFormat |-> "",
          Notify |-> FALSE]

\* the reason phrases a server may put after the code in the status line
Reasons == {"OK", "Sorry"}

\* rsp.Header: the header names of a response, each with its values
Headers ==
  { [k \in {} |-> <<>>],
    [k \in {"Content-Type"} |-> <<"application/json">>],
    [k \in {"Content-Type", "X-Ratelimit-Remaining"} |->
       IF k = "Content-Type" THEN <<"application/json">> ELSE <<"99">>] }

\* what http.DefaultClient.Do can return with a nil error, and the entity
\* its Body holds; Status is the status line, the code and the reason
Responses ==
  [StatusCode : Statuses, Reason : Reasons, Header : Headers,
   entity : Entities]

Status(r) == <<r.StatusCode, r.Reason>>

NoRsp == [StatusCode |-> 0, Reason |-> "", Header |-> [k \in {} |-> <<>>],
          entity |-> ""]

\* the orders in which range can visit the keys of a map: any
RangeOrders(h) ==
  {q \in [1..Cardinality(DOMAIN h) -> DOMAIN h] :
     \A k \in DOMAIN h : \E i \in 1..Cardinality(DOMAIN h) : q[i] = k}

\* lines 180-182: one log.Debug per header, visited in the order q
HeaderLogs(h, q) ==
  [i \in 1..Cardinality(DOMAIN h) |->
     [level |-> "debug", what |-> <<q[i], h[q[i]]>>]]

\* json.Marshal(msg): "from" carries omitempty
Marshal(m) ==
  LET fields == IF m.From = "" THEN {"message", "color", "message_format", "notify"}
                ELSE {"from", "message", "color", "message_format", "notify"}
  IN [f \in fields |->
        CASE f = "from"           -> m.From
          [] f = "message"        -> m.Message
          [] f = "color"          -> m.Color
          [] f = "message_format" -> m.MessageFormat
          [] f = "notify"         -> m.Notify]

\* log.Fatal / log.Fatalf: the process ends
Fatal(what) ==
  /\ logs' = Append(logs, [level |-> "fatal", what |-> what])
  /\ result' = "fatal"
  /\ spc' = "exit"

\* lines 116-125
ReadMessage ==
  /\ spc = "read"
  /\ IF flags.messageSet
     THEN /\ text' = flags.message
          /\ spc' = "format"
          /\ UNCHANGED <<logs, result>>
     ELSE \E err \in BOOLEAN :
            IF err
            THEN /\ Fatal("Could not read message from stdin")
                 /\ UNCHANGED text
            ELSE /\ text' = stdin
                 /\ spc' = "format"
                 /\ UNCHANGED <<logs, result>>
  /\ UNCHANGED <<flags, stdin, msg, buf, req, sent, rsp>>
  /\ UNCHANGED fvars

\* a call of processPlainText that does not look at --html
FormatCallAlways ==
  /\ spc = "format"
  /\ spc' = "formatting"
  /\ input' = text
  /\ src' = text
  /\ out' = <<>>
  /\ lits' = <<>>
  /\ urls' = <<>>
  /\ fpc' = "scan"
  /\ UNCHANGED <<flags, stdin, text, msg, buf, req, sent, rsp, logs, result>>

\* lines 131-134: the call of processPlainText, or its bypass
FormatCall ==
  /\ spc = "format"
  /\ IF flags.html
     THEN /\ spc' = "build"
          /\ UNCHANGED fvars
     ELSE /\ spc' = "formatting"
          /\ input' = text
          /\ src' = text
          /\ out' = <<>>
          /\ lits' = <<>>
          /\ urls' = <<>>
          /\ fpc' = "scan"
  /\ UNCHANGED <<flags, stdin, text, msg, buf, req, sent, rsp, logs, result>>

\* line 133: text = string(processPlainText(...))
FormatReturn ==
  /\ spc = "formatting"
  /\ fpc = "done"
  /\ text' = out
  /\ fpc' = "idle"
  /\ spc' = "build"
  /\ UNCHANGED <<input, src, out, lits, urls>>
  /\ UNCHANGED <<flags, stdin, msg, buf, req, sent, rsp, logs, result>>

\* lines 136-144
BuildMessage ==
  /\ spc = "build"
  /\ msg' = [From          |-> IF flags.fromSet THEN flags.from ELSE "",
             Message       |-> text,
             Color         |-> flags.color,
             MessageFormat |-> "html",
             Notify        |-> flags.notify]
  /\ spc' = "marshal"
  /\ UNCHANGED <<flags, stdin, text, buf, req, sent, rsp, logs, result>>
  /\ UNCHANGED fvars

\* lines 146-149
MarshalMessage ==
  /\ spc = "marshal"
  /\ \E err \in BOOLEAN :
       IF err
       THEN /\ Fatal("json.Marshal")
            /\ UNCHANGED buf
       ELSE /\ buf' = Marshal(msg)
            /\ spc' = "newreq"
            /\ UNCHANGED <<logs, result>>
  /\ UNCHANGED <<flags, stdin, text, msg, req, sent, rsp>>
  /\ UNCHANGED fvars

\* lines 108-114 and 151-158
NewRequest ==
  /\ spc = "newreq"
  /\ \E err \in BOOLEAN :
       IF err
       THEN /\ Fatal("http.NewRequest")
            /\ UNCHANGED req
       ELSE /\ req' = [Method |-> "POST",
                       Host   |-> "api.hipchat.com",
                       Room   |-> flags.room,
                       Body   |-> buf,
                       ContentType   |-> "application/json",
                       Authorization |-> <<"Bearer", flags.token>>]
            /\ spc' = "insecure"
            /\ UNCHANGED <<logs, result>>
  /\ UNCHANGED <<flags, stdin, text, msg, buf, sent, rsp>>
  /\ UNCHANGED fvars

\* a check that lets --insecure through
CheckInsecureIgnored ==
  /\ spc = "insecure"
  /\ spc' = "do"
  /\ UNCHANGED <<flags, stdin, text, msg, buf, req, sent, rsp, logs, result>>
  /\ UNCHANGED fvars

\* lines 160-164
CheckInsecure ==
  /\ spc = "insecure"
  /\ IF flags.insecure
     THEN /\ result' = "ErrInsecureNotImplemented"
          /\ spc' = "exit"
     ELSE /\ spc' = "do"
          /\ UNCHANGED result
  /\ UNCHANGED <<flags, stdin, text, msg, buf, req, sent, rsp, logs>>
  /\ UNCHANGED fvars

\* a Do that tries a second time when the transport fails
DoRequestRetry ==
  /\ spc = "do"
  /\ sent' = Append(sent, req)
  /\ \/ /\ IF Len(sent) = 0
           THEN UNCHANGED <<spc, logs, result>>
           ELSE Fatal("http.DefaultClient.Do")
        /\ UNCHANGED rsp
     \/ /\ \E r \in Responses : rsp' = r
        /\ spc' = "readbody"
        /\ UNCHANGED <<logs, result>>
  /\ UNCHANGED <<flags, stdin, text, msg, buf, req>>
  /\ UNCHANGED fvars

\* lines 166-169
DoRequest ==
  /\ spc = "do"
  /\ sent' = Append(sent, req)
  /\ \/ /\ Fatal("http.DefaultClient.Do")
        /\ UNCHANGED rsp
     \/ /\ \E r \in Responses : rsp' = r
        /\ spc' = "readbody"
        /\ UNCHANGED <<logs, result>>
  /\ UNCHANGED <<flags, stdin, text, msg, buf, req>>
  /\ UNCHANGED fvars

\* lines 172-175
ReadEntity ==
  /\ spc = "readbody"
  /\ \E err \in BOOLEAN :
       IF err
       THEN Fatal("Could not read response entity")
       ELSE /\ spc' = "classify"
            /\ UNCHANGED <<logs, result>>
  /\ UNCHANGED <<flags, stdin, text, msg, buf, req, sent, rsp>>
  /\ UNCHANGED fvars

\* a switch that takes every 2xx status for success
SuccessStatus2xx(code) == code >= 200 /\ code < 300

\* the switch on rsp.StatusCode
SuccessStatus(code) == code = StatusOK \/ code = StatusNoContent

\* lines 177-189
Classify ==
  /\ spc = "classify"
  /\ IF SuccessStatus(rsp.StatusCode)
     THEN /\ \E q \in RangeOrders(rsp.Header) :
               logs' = Append(logs, [level |-> "debug",
                                     what  |-> <<"Success", Status(rsp)>>])
                       \o HeaderLogs(rsp.Header, q)
          /\ result' = "nil"
     ELSE /\ logs' = Append(logs, [level |-> "error",
                                   what  |-> <<"POST failed", Status(rsp),
                                               rsp.entity>>])
          /\ result' = "ErrPostFailed"
  /\ spc' = "exit"
  /\ UNCHANGED <<flags, stdin, text, msg, buf, req, sent, rsp>>
  /\ UNCHANGED fvars

(***************************************************************************)
(* Specifications.  Spec runs processPlainText alone on every input of     *)
(* Inputs; SendSpec runs doSend on every combination of flags.             *)
(***************************************************************************)
NoFlags ==
  [debug |-> FALSE, html |-> FALSE, insecure |-> FALSE, notify |-> FALSE,
   messageSet |-> FALSE, message |-> <<>>, fromSet |-> FALSE, from |-> "",
   color |-> "yellow", token |-> "", room |-> 0]

FlagSets ==
  [debug : BOOLEAN, html : BOOLEAN, insecure : BOOLEAN, notify : BOOLEAN,
   messageSet : {TRUE}, message : SendTexts, fromSet : BOOLEAN,
   from : {"bot"}, color : {"yellow"}, token : {"secret"}, room : {42}]
  \cup
  [debug : BOOLEAN, html : BOOLEAN, insecure : BOOLEAN, notify : BOOLEAN,
   messageSet : {FALSE}, message : {<<>>}, fromSet : BOOLEAN,
   from : {"bot"}, color : {"red"}, token : {"secret"}, room : {42}]

\* processPlainText called on its own: line 216
CallFormatter ==
  /\ spc = "idle"
  /\ fpc = "idle"
  /\ \E s \in Inputs :
       /\ input' = s
       /\ src' = s
  /\ out' = <<>>
  /\ lits' = <<>>
  /\ urls' = <<>>
  /\ fpc' = "scan"
  /\ UNCHANGED svars

\* app.Run(os.Args) reaching doSend: lines 41 and 103
Invoke ==
  /\ spc = "idle"
  /\ fpc = "idle"
  /\ \E f \in FlagSets, s \in SendTexts :
       /\ flags' = f
       /\ stdin' = s
  /\ spc' = "read"
  /\ UNCHANGED <<text, msg, buf, req, sent, rsp, logs, result>>
  /\ UNCHANGED fvars

Init ==
  /\ input = <<>>
  /\ src = <<>>
  /\ out = <<>>
  /\ lits = <<>>
  /\ urls = <<>>
  /\ fpc = "idle"
  /\ flags = NoFlags
  /\ stdin = <<>>
  /\ spc = "idle"
  /\ text = <<>>
  /\ msg = NoMsg
  /\ buf = Marshal(NoMsg)
  /\ req = <<>>
  /\ sent = <<>>
  /\ rsp = NoRsp
  /\ logs = <<>>
  /\ result = "running"

Next == CallFormatter \/ ScanMatch \/ ScanNoMatch

Spec == Init /\ [][Next]_vars

FairSpec == Spec /\ WF_vars(Next)

SendNext ==
  \/ Invoke
  \/ ReadMessage
  \/ FormatCall
  \/ ScanMatch
  \/ ScanNoMatch
  \/ FormatReturn
  \/ BuildMessage
  \/ MarshalMessage
  \/ NewRequest
  \/ CheckInsecure
  \/ DoRequest
  \/ ReadEntity
  \/ Classify

SendSpec == Init /\ [][SendNext]_vars

FairSendSpec == SendSpec /\ WF_vars(SendNext)

(***************************************************************************)
(* Reference definitions used by the properties below.                     *)
(***************************************************************************)
RefEntity(c) ==
  IF c = "&" THEN <<"&", "a", "m", "p", ";">>
  ELSE IF c = "<" THEN <<"&", "l", "t", ";">>
  ELSE IF c = ">" THEN <<"&", "g", "t", ";">>
  ELSE IF c = "\"" THEN <<"&", "#", "3", "4", ";">>
  ELSE IF c = "'" THEN <<"&", "#", "3", "9", ";">>
  ELSE <<c>>

\* the length of s[1..k] once escaped
RefWidth(s, k) ==
  Cardinality({jt \in (1..k) \X (1..5) : jt[2] <= Len(RefEntity(s[jt[1]]))})

\* the p-th character of the escaped s, off[k + 1] being RefWidth(s, k)
RefEscapedAt(s, off, p) ==
  Only({RefEntity(s[j])[p - off[j]] :
          j \in {k \in 1..Len(s) : off[k] < p /\ p <= off[k + 1]}})

RefEscape(s) ==
  Only({[p \in 1..off[Len(s) + 1] |-> RefEscapedAt(s, off, p)] :
          off \in {[k \in 1..(Len(s) + 1) |-> RefWidth(s, k - 1)]}})

RefAnchor(u) ==
  <<"<", "a", " ", "h", "r", "e", "f", "=", "\"">> \o u \o <<"\"", ">">>
  \o u \o <<"<", "/", "a", ">">>

\* L0 U1 L1 ... : ls[1] us[1] ls[2] us[2] ..., as far as both go
RECURSIVE JoinRaw(_, _)
JoinRaw(ls, us) ==
  IF ls = <<>> THEN <<>>
  ELSE ls[1] \o (IF us = <<>> THEN <<>> ELSE us[1] \o JoinRaw(Tail(ls), Tail(us)))

\* escape(L0) anchor(U1) escape(L1) ...
RECURSIVE JoinHtml(_, _)
JoinHtml(ls, us) ==
  IF ls = <<>> THEN <<>>
  ELSE RefEscape(ls[1])
       \o (IF us = <<>> THEN <<>>
           ELSE RefAnchor(us[1]) \o JoinHtml(Tail(ls), Tail(us)))

\* the input from the k-th literal on: what the k-th search looked at
RECURSIVE Remainder(_, _, _, _)
Remainder(ls, us, rest, k) ==
  IF k > Len(ls) THEN rest
  ELSE ls[k] \o (IF k > Len(us) THEN <<>> ELSE us[k])
       \o Remainder(ls, us, rest, k + 1)

IsPrefix(a, b) == Len(a) <= Len(b) /\ SubSeq(b, 1, Len(a)) = a

IsSuffix(a, b) ==
  Len(a) <= Len(b) /\ SubSeq(b, Len(b) - Len(a) + 1, Len(b)) = a

\* every end of item+ (paren | final) started at position b of s: a final
\* character, or a closing paren, after at least one item
AllBodyTailEnds(s, b) ==
  LET d == DepthTab(s, b)
      reach == Reach(s, b, d)
  IN {x + 1 : x \in {y \in reach : y > b /\ y <= Len(s) /\ IsUrlEnd(s[y])}}
     \cup {x \in reach : /\ x > b
                         /\ s[x - 1] = ")"
                         /\ LastOpen(s, b, d, x) > b}

\* every valid end of a match of urlRe started at position i of s
AllMatchEnds(s, i) ==
  IF ~ WordBoundary(s, i) THEN {}
  ELSE LET begins == SchemeEnds(s, i)
       IN UNION {AllBodyTailEnds(s, begins[k]) : k \in 1..Len(begins)}

Count(s, c) == Cardinality({k \in 1..Len(s) : s[k] = c})

\* every ")" of u has its "(" before it in u, and every "(" its ")"
ParenBalanced(u) ==
  /\ Count(u, "(") = Count(u, ")")
  /\ \A n \in 1..Len(u) :
       Count(SubSeq(u, 1, n), "(") >= Count(SubSeq(u, 1, n), ")")

\* s starts with "(", characters that are no space, parenthesis or angle
\* bracket, and ")"
StartsWithGroup(s) ==
  /\ s # <<>>
  /\ s[1] = "("
  /\ \E j \in 2..Len(s) :
       /\ s[j] = ")"
       /\ \A k \in 2..(j - 1) :
            s[k] \notin {" ", "\t", "\n", "\f", "\r", "(", ")", "<", ">"}

\* the specification's worked example: the output for ExCompare
OutCompare ==
  <<"5"," ","&","l","t",";"," ","1","0"," ","&","a","m","p",";"," ","3"," ",
    "&","g","t",";"," ","1">>

\* the specification's worked example: the output for ExSee
OutSee ==
  <<"s","e","e"," ","<","a"," ","h","r","e","f","=","\"","h","t","t","p",
    ":","/","/","e","x","a","m","p","l","e",".","c","o","m","/","t","h","i",
    "n","g","\"",">","h","t","t","p",":","/","/","e","x","a","m","p","l",
    "e",".","c","o","m","/","t","h","i","n","g","<","/","a",">"," ","h","e",
    "r","e">>

\* the specification's worked example: the output for ExOuterParen
OutOuterParen ==
  <<"(","s","e","e"," ","<","a"," ","h","r","e","f","=","\"","h","t","t",
    "p",":","/","/","e","x","a","m","p","l","e",".","c","o","m","/","t","h",
    "i","n","g","\"",">","h","t","t","p",":","/","/","e","x","a","m","p",
    "l","e",".","c","o","m","/","t","h","i","n","g","<","/","a",">",")">>

\* the characters a URL may not end on, as the specification lists them
SentencePunct ==
  {"U+0060", "!", "(", ")", "[", "]", "{", "}", ";", ":", "'", "\"", ".",
   ",", "<", ">", "?", "U+00AB", "U+00BB", "U+201C", "U+201D", "U+2018",
   "U+2019"}

UrlHttpAAA == <<"h","t","t","p",":","/","a","a","a">>

(***************************************************************************)
(* Properties of processPlainText, checked under Spec.                     *)
(***************************************************************************)

\* C1: when urlRe finds no match in the input, processPlainText returns the
\* input with each of & < > " ' replaced by its entity exactly once and every
\* other character copied unchanged.
C1_NoUrlEscapedOnce ==
  (spc = "idle" /\ fpc = "done" /\ FindIndex(input) = <<>>)
    => out = RefEscape(input)

C1_Witness ==
  /\ spc = "idle"
  /\ fpc = "done"
  /\ input = ExCompare
  /\ FindIndex(input) = <<>>
  /\ out = OutCompare

\* C2: the input is split, in order and without gap or overlap, into
\* literals and URLs L0 U1 L1 ... Un Ln, each Ui the leftmost match in the
\* input not yet consumed, and the output is escape(L0) anchor(U1) escape(L1)
\* ... anchor(Un) escape(Ln), with Ui raw in both places of its anchor.
C2_Decomposition ==
  (spc = "idle" /\ fpc \in {"scan", "done"}) =>
    /\ Len(lits) = Len(urls) + (IF fpc = "done" THEN 1 ELSE 0)
    /\ JoinRaw(lits, urls) \o (IF fpc = "done" THEN <<>> ELSE src) = input
    /\ out = JoinHtml(lits, urls)
    /\ \A k \in 1..Len(urls) :
         /\ urls[k] # <<>>
         /\ FindIndex(Remainder(lits, urls, src, k))
              = <<Len(lits[k]), Len(lits[k]) + Len(urls[k])>>
    /\ fpc = "done" => FindIndex(lits[Len(lits)]) = <<>>

C2_Witness ==
  /\ spc = "idle"
  /\ fpc = "done"
  /\ input = ExSee
  /\ Len(urls) = 1
  /\ out = OutSee

\* C6: a recognised URL never holds a ")" without its "(" inside the URL, so
\* the ")" of a parenthetical around the URL stays literal text after the
\* anchor; and a one-level "(...)" attached to a URL is part of that URL.
C6_Parentheses ==
  (spc = "idle") =>
    /\ \A k \in 1..Len(urls) : ParenBalanced(urls[k])
    /\ urls # <<>> => ~ StartsWithGroup(src)
    /\ (fpc = "done" /\ input = ExOuterParen) => out = OutOuterParen
    /\ (fpc = "done" /\ input = ExWikipedia) => urls = <<ExWikipedia>>

C6_Witness ==
  /\ spc = "idle"
  /\ fpc = "done"
  /\ input = ExOuterParen
  /\ Len(urls) = 1
  /\ lits[2] = <<")">>
  /\ out = OutOuterParen

\* C7: a recognised URL does not end on sentence punctuation, unless on a
\* ")" that closes a parenthetical inside the URL; and it is the longest of
\* the valid matches at the leftmost position where one starts.
C7_TrailingAndLongest ==
  (spc = "idle") =>
    /\ \A k \in 1..Len(urls) :
         LET u == urls[k]
         IN /\ u # <<>>
            /\ \/ u[Len(u)] \notin SentencePunct
               \/ (u[Len(u)] = ")" /\ ParenBalanced(u))
    /\ (fpc = "scan" /\ urls # <<>>) =>
         LET k == Len(urls)
             rest == lits[k] \o urls[k] \o src
             start == Len(lits[k]) + 1
         IN /\ \A e \in AllMatchEnds(rest, start) : e <= start + Len(urls[k])
            /\ \A i \in 1..(start - 1) : AllMatchEnds(rest, i) = {}

C7_Witness ==
  /\ spc = "idle"
  /\ fpc = "scan"
  /\ urls = <<UrlHttpAAA>>
  /\ src = <<".">>
  /\ Cardinality(AllMatchEnds(input, 1)) = 2

\* C8: the only raw <, > and " of the output are those of the anchors the
\* formatter writes; no recognised URL holds one of them.
C8_WellFormed ==
  (spc = "idle" /\ fpc = "done") =>
    /\ \A k \in 1..Len(urls) : \A j \in 1..Len(urls[k]) :
         urls[k][j] \notin {"\"", "<", ">"}
    /\ Count(out, "\"") = 2 * Len(urls)
    /\ Count(out, "<") = 2 * Len(urls)
    /\ Count(out, ">") = 2 * Len(urls)

\* C10: every match is non-empty and every iteration that finds one leaves a
\* strictly shorter suffix of the remaining input; the loop ends exactly at
\* the first search that finds nothing; the buffer only grows by appending;
\* and the loop does end.
C10_Terminates ==
  /\ [][(spc = "idle" /\ fpc = "scan") =>
          /\ IsPrefix(out, out')
          /\ IsSuffix(src', src)
          /\ (FindIndex(src) # <<>>) =>
               (fpc' = "scan" /\ Len(src') < Len(src)
                /\ urls'[Len(urls')] # <<>>)
          /\ (FindIndex(src) = <<>>) => fpc' = "done"]_vars
  /\ <>(spc = "idle" /\ fpc = "done")

C10_Witness ==
  /\ spc = "idle"
  /\ fpc = "done"
  /\ Len(urls) = 2
  /\ src = <<>>

(***************************************************************************)
(* Properties of doSend, checked under SendSpec and FairSendSpec.          *)
(***************************************************************************)
\* the text doSend was given
RawText == IF flags.messageSet THEN flags.message ELSE stdin

\* msg has been built
Built == msg.MessageFormat = "html"

\* C3: with --html the message body of the request is the raw input text,
\* and processPlainText is never called; without it the body is
\* processPlainText of the input text.
C3_HtmlBypass ==
  LET body == IF flags.html THEN RawText ELSE processPlainText(RawText)
  IN /\ Built => msg.Message = body
     /\ \A k \in 1..Len(sent) : sent[k].Body.message = body
     /\ flags.html => (fpc = "idle" /\ input = <<>> /\ out = <<>>)

C3_Witness ==
  /\ flags.html
  /\ ~ flags.messageSet
  /\ stdin = TxtMarkup
  /\ Len(sent) = 1
  /\ sent[1].Body.message = TxtMarkup

\* C4: with the response and its entity read, doSend returns nil exactly
\* when the status code is 200 or 204, whatever the reason phrase, the
\* headers and the entity are, and then logs nothing at error level; on
\* any other status code it logs the status line and the entity once, as an
\* error, and returns ErrPostFailed.
C4_StatusDecides ==
  [][spc = "classify" =>
       /\ spc' = "exit"
       /\ (result' = "nil") <=> (rsp.StatusCode \in {200, 204})
       /\ (rsp.StatusCode \in {200, 204}) =>
            /\ Len(logs') = Len(logs) + 1 + Cardinality(DOMAIN rsp.Header)
            /\ \A i \in 1..Len(logs') :
                 i > Len(logs) => logs'[i].level = "debug"
       /\ (rsp.StatusCode \notin {200, 204}) =>
            /\ result' = "ErrPostFailed"
            /\ logs' = Append(logs,
                 [level |-> "error",
                  what  |-> <<"POST failed",
                              <<rsp.StatusCode, rsp.Reason>>,
                              rsp.entity>>])]_vars

C4_Witness ==
  /\ spc = "exit"
  /\ result = "ErrPostFailed"
  /\ rsp.StatusCode = 400
  /\ rsp.Reason = "OK"
  /\ DOMAIN rsp.Header # {}
  /\ rsp.entity # ""
  /\ logs[Len(logs)].level = "error"

\* C5 as stated: with --insecure set, doSend always ends with
\* ErrInsecureNotImplemented and issues no request, whatever else happens.
C5_InsecureAlwaysNotImplemented ==
  (flags.insecure /\ spc = "exit") =>
    (result = "ErrInsecureNotImplemented" /\ sent = <<>>)

\* C5 amended: with --insecure set no request is ever issued, and doSend
\* ends with ErrInsecureNotImplemented unless it was aborted before the
\* check, by a failed read of stdin, json.Marshal or http.NewRequest.
C5_InsecureNoRequest ==
  flags.insecure =>
    /\ sent = <<>>
    /\ spc \notin {"do", "readbody", "classify"}
    /\ spc = "exit" =>
         \/ result = "ErrInsecureNotImplemented"
         \/ /\ result = "fatal"
            /\ logs[Len(logs)].what \in
                 {"Could not read message from stdin", "json.Marshal",
                  "http.NewRequest"}
    /\ (spc = "exit" /\ result = "fatal"
        /\ logs[Len(logs)].what = "Could not read message from stdin")
         => ~ flags.messageSet

C5_Witness ==
  /\ flags.insecure
  /\ ~ flags.messageSet
  /\ spc = "exit"
  /\ result = "ErrInsecureNotImplemented"
  /\ req # <<>>
  /\ sent = <<>>

\* C9: at most one request is issued, and only with the text read, formatted
\* or bypassed, serialised and the insecure check passed; once doSend has
\* ended nothing more happens; and doSend does end, in one outcome.
C9_SingleShot ==
  /\ [](/\ Len(sent) <= 1
        /\ sent # <<>> =>
             /\ ~ flags.insecure
             /\ sent[1] = req
             /\ req.Body = Marshal(msg)
             /\ msg.Message = text
             /\ text = (IF flags.html THEN RawText
                        ELSE JoinHtml(lits, urls))
             /\ (~ flags.html) => (fpc = "idle" /\ input = RawText)
        /\ (result = "running") <=> (spc # "exit"))
  /\ [][/\ result = "running"
        /\ sent' # sent => (spc = "do" /\ sent = <<>>)]_vars
  /\ <>(result \in {"nil", "ErrPostFailed", "ErrInsecureNotImplemented",
                    "fatal"})

C9_Witness ==
  /\ spc = "exit"
  /\ result = "fatal"
  /\ Len(sent) = 1
  /\ logs[Len(logs)].what = "http.DefaultClient.Do"

====
